---- MODULE Spec2Model ----
(***************************************************************************)
(* Model of the three absurdist-agent scripts of the repository:           *)
(*   src/Agent_Camus.py  (registry, seeded sampling, NANDA wrapper)        *)
(*   src/Camus_proof.py  (fixed extras, server thread + REPL)              *)
(*   src/camus_agent.py  (camus / plath / synthesis only)                  *)
(*                                                                         *)
(* Python strings are sequences of characters.  A fixed literal of the     *)
(* source (a prompt template, a role label, an exception text) is          *)
(* abbreviated to a single element of the sequence; messages, modes and    *)
(* results of the orchestration engine are spelled character by character  *)
(* so that lower(), strip() and substring tests are computed.              *)
(* Python values are records [t, s]: t is the type tag, s the text.        *)
(***************************************************************************)
EXTENDS Integers, Sequences, FiniteSets, TLC

VARIABLES
    script,             \* which of the three scripts is the running process
    AGENT_SEED,         \* int(os.getenv("AGENT_SEED", "0"))
    EXTRA_AGENT_COUNT,  \* int(os.getenv("EXTRA_AGENT_COUNT", "2"))
    rng,                \* state of the process-wide random source
    run,                \* how many times the process has been started
    blends,             \* selections drawn from the random source in this run
    inv,                \* the last invocation of absurdist_improvement
    incoming,           \* the request the wrapper received for it, if any
    response,           \* the wrapper's response to it, if any
    extrasLog,          \* the selections a seeded process drew in its first run
    fallback,           \* the first fallback text this process returned, if any
    frames,             \* per thread: the call of absurdist_improvement it is in
    locals,             \* per call frame: tasks, selected_agents and the sample
    agents              \* the Agent objects create_absurdist_improvement built

vars == <<script, AGENT_SEED, EXTRA_AGENT_COUNT, rng, run, blends,
          inv, incoming, response, extrasLog, fallback, frames, locals, agents>>

\* the state of the two threads of Camus_proof.py's main
threadVars == <<frames, locals, agents>>

(* ---- bounds ---- *)
\* seeds 0..MaxSeed, at most MaxBlends selections per run, MaxRuns runs of
\* the process, RngMod states of the random source
MaxSeed == 2
MaxBlends == 2
MaxRuns == 2
RngMod == 8

(* ---- Python values ---- *)
Str(s) == [t |-> "str", s |-> s]
None == [t |-> "none", s |-> <<>>]
ABSENT == [t |-> "absent", s |-> <<>>]
IntVal(s) == [t |-> "int", s |-> s]

IsStr(v) == v.t = "str"

\* truthiness of a value as used by  x or y : None and "" are falsy
Truthy(v) == CASE v.t = "none" -> FALSE
               [] v.t = "absent" -> FALSE
               [] v.t = "str" -> v.s # <<>>
               [] OTHER -> TRUE

blend == <<"b", "l", "e", "n", "d">>
camus == <<"c", "a", "m", "u", "s">>
plath == <<"p", "l", "a", "t", "h">>
nonsense == <<"n", "o", "n", "s", "e", "n", "s", "e">>
CAMUS_upper == <<"C", "A", "M", "U", "S">>

Whitespace == {" ", "\n", "\t"}

LowerChar(c) ==
    CASE c = "A" -> "a" [] c = "B" -> "b" [] c = "C" -> "c" [] c = "D" -> "d"
      [] c = "E" -> "e" [] c = "H" -> "h" [] c = "L" -> "l" [] c = "M" -> "m"
      [] c = "N" -> "n" [] c = "O" -> "o" [] c = "P" -> "p" [] c = "S" -> "s"
      [] c = "T" -> "t" [] c = "U" -> "u" [] c = "Y" -> "y"
      [] OTHER -> c

\* str.lower()
Lower(s) == [i \in 1..Len(s) |-> LowerChar(s[i])]

RECURSIVE LStrip(_)
LStrip(s) == IF s # <<>> /\ Head(s) \in Whitespace THEN LStrip(Tail(s)) ELSE s

RECURSIVE RStrip(_)
RStrip(s) == IF s # <<>> /\ s[Len(s)] \in Whitespace
             THEN RStrip(SubSeq(s, 1, Len(s) - 1)) ELSE s

\* Strip that trims the left end only
StripLeft(s) == LStrip(s)

\* str.strip()
Strip(s) == RStrip(LStrip(s))

\* needle in haystack
Contains(haystack, needle) ==
    \E i \in 1..(Len(haystack) - Len(needle) + 1) :
        SubSeq(haystack, i, i + Len(needle) - 1) = needle

(* ---- the persona registry ---- *)
\* keys of AGENT_POOL in insertion order
AgentKeys == <<"camus", "plath", "synth", "kafka", "dada", "ironist", "mystic">>

Role(key) ==
    CASE key = "camus" -> "Existential Philosopher"
      [] key = "plath" -> "Poetic Melancholic"
      [] key = "synth" -> "Absurdist Synthesizer"
      [] key = "kafka" -> "Kafkaesque Bureaucrat"
      [] key = "dada" -> "Dadaist Trickster"
      [] key = "ironist" -> "Ironist Mediator"
      [] key = "mystic" -> "Mystic Nihilist"

Task(description, expected_output, agent) ==
    [description |-> description, expected_output |-> expected_output,
     agent |-> agent]

(* ---- the random source ---- *)
\* The generator of the random module stands as a congruential generator
\* over 0..RngMod-1: what matters of it is kept, namely that seeding fixes
\* the state, that every draw is a function of the state and advances it,
\* and that an unseeded generator may start in any state.
\* random.seed(n): the state reached from the seed alone
SeedState(n) == (5 * n + 1) % RngMod

\* one step of the generator
NextRng(s) == (5 * s + 3) % RngMod

\* Random._randbelow(n): a value in 0..n-1 and the generator state after it
RandBelow(s, n) == [value |-> NextRng(s) % n, rng |-> NextRng(s)]

\* the selection loop of random.sample; i counts from 0 as in the source,
\* pool is indexed from 1
RECURSIVE SampleLoop(_, _, _, _, _)
SampleLoop(pool, n, k, i, acc) ==
    IF i >= k THEN acc
    ELSE LET r == RandBelow(acc.rng, n - i)
             j == r.value + 1
         IN SampleLoop([pool EXCEPT ![j] = pool[n - i]], n, k, i + 1,
                       [result |-> Append(acc.result, pool[j]), rng |-> r.rng])

\* random.sample(population, k)
random_sample(population, k, s) ==
    IF ~(0 <= k /\ k <= Len(population))
    THEN [raised |-> TRUE, result |-> <<>>, rng |-> s]
    ELSE LET r == SampleLoop(population, Len(population), k, 0,
                             [result |-> <<>>, rng |-> s])
         IN [raised |-> FALSE, result |-> r.result, rng |-> r.rng]

\* min(a, b)
Min(a, b) == IF a <= b THEN a ELSE b

(* ---- results of the orchestration engine ---- *)
ResultKeys == {"output", "result", "text", "answer"}

NoFields == [key \in ResultKeys |-> ABSENT]

\* a value crew.kickoff() returns: t is its shape ("none", "str", "obj",
\* "dict"), s is str(result), f gives the attributes of an object or the
\* entries of a dict (ABSENT where there is none)
Raw(t, s, f) == [t |-> t, s |-> s, f |-> f]

RawNone == Raw("none", <<"N", "o", "n", "e">>, NoFields)

RawResults ==
    { RawNone,
      Raw("str", <<" ", "o", "k", "\n">>, NoFields),
      Raw("str", <<" ", "\t">>, NoFields),
      Raw("obj", <<"<", "o", ">">>,
          [NoFields EXCEPT !["output"] = Str(<<"\n", "a", " ", "b", " ">>)]),
      Raw("obj", <<"<", "o", ">">>,
          [NoFields EXCEPT !["output"] = IntVal(<<"7">>),
                           !["text"] = Str(<<"t", " ">>)]),
      Raw("obj", <<" ", "<", "o", ">", " ">>,
          [NoFields EXCEPT !["result"] = Str(<<"r">>)]),
      Raw("dict", <<"{", "}", " ">>,
          [NoFields EXCEPT !["output"] = IntVal(<<"7">>),
                           !["answer"] = Str(<<" ", "a">>)]),
      Raw("dict", <<"{", "7", "}">>,
          [NoFields EXCEPT !["text"] = IntVal(<<"7">>)]) }

\* texts of the errors the orchestration engine raises
Errors == {<<"timeout">>, <<"rate limit">>}

\* what Crew(...) and crew.kickoff() do: raise exc, or return raw
Raises(exc) == [kind |-> "raise", exc |-> exc, raw |-> RawNone]
Returns(raw) == [kind |-> "return", exc |-> <<>>, raw |-> raw]
NotRun == [kind |-> "none", exc |-> <<>>, raw |-> RawNone]

CrewOutcomes == {Raises(e) : e \in Errors} \cup {Returns(r) : r \in RawResults}

(* ---- src/Agent_Camus.py ---- *)
\* format_task_description with the message left out of the prompt
format_without_message(role_label, message_text) ==
    <<"Reframe this message in the style of ", role_label, ":\n\n">>

format_task_description(role_label, message_text) ==
    <<"Reframe this message in the style of ", role_label, ":\n\n">>
        \o message_text

\* the first key of keys under which the dict holds a str
RECURSIVE FirstStrKey(_, _)
FirstStrKey(f, keys) ==
    IF keys = <<>> THEN "" 
    ELSE IF IsStr(f[Head(keys)]) THEN Head(keys)
    ELSE FirstStrKey(f, Tail(keys))

extract_output(result) ==
    IF result.t = "none" THEN <<>>
    ELSE IF result.t = "obj" /\ IsStr(result.f["output"])
         THEN Strip(result.f["output"].s)
    ELSE IF result.t = "obj" /\ IsStr(result.f["text"])
         THEN Strip(result.f["text"].s)
    ELSE IF result.t = "dict"
            /\ FirstStrKey(result.f, <<"output", "result", "text", "answer">>) # ""
         THEN Strip(result.f[FirstStrKey(result.f,
                        <<"output", "result", "text", "answer">>)].s)
    ELSE Strip(result.s)

(* ---- inputs ---- *)
Hi == <<"H", "i">>
WhyBother == <<"W", "h", "y", " ", "b", "o", "t", "h", "e", "r", "?">>

Messages == {<<>>, Hi, WhyBother}

\* the mode argument of a call: left out, None, or a string
ModeArgs == {ABSENT, None, Str(<<>>), Str(blend), Str(camus), Str(plath),
             Str(CAMUS_upper), Str(nonsense)}

(* ---- one invocation ---- *)
\* what one call of absurdist_improvement did: its arguments, the mode it
\* composed under, the locals tasks / selected_keys / extras as they stood
\* when it ended, the engine's outcome, and how it ended
Invocation(message_text, modeArg, mode, tasks, selected, extras, sampled, crew, status, ret, exc) ==
    [message_text |-> message_text, modeArg |-> modeArg, mode |-> mode,
     tasks |-> tasks, selected |-> selected, extras |-> extras,
     sampled |-> sampled, crew |-> crew, status |-> status, ret |-> ret,
     exc |-> exc]

Idle == Invocation(<<>>, ABSENT, None, <<>>, <<>>, <<>>, FALSE, NotRun,
                   "idle", <<>>, <<>>)

\* mode in (a, b) for a mode that may be None
ModeIn(mode, names) == IsStr(mode) /\ mode.s \in names

\* a parameter with default "blend"
DefaultBlend(modeArg) == IF modeArg = ABSENT THEN Str(blend) ELSE modeArg

\* NormalizeMode with the fallback the specification describes: a mode that
\* is none of the three becomes blend
NormalizeModeFallback(modeArg) ==
    LET m == Lower(IF Truthy(modeArg) THEN modeArg.s ELSE blend)
    IN IF m \in {camus, plath, blend} THEN Str(m) ELSE Str(blend)

\* mode = (mode or "blend").lower()
NormalizeMode(modeArg) ==
    Str(Lower(IF Truthy(modeArg) THEN modeArg.s ELSE blend))

\* the camus and plath tasks of Agent_Camus.py
BaseTasks(message_text, mode) ==
    (IF ModeIn(mode, {camus, blend})
     THEN <<Task(format_task_description(Role("camus"), message_text),
                 "A philosophical reinterpretation emphasizing futility, absurdity, or revolt.",
                 "camus")>>
     ELSE <<>>)
    \o
    (IF ModeIn(mode, {plath, blend})
     THEN <<Task(format_task_description(Role("plath"), message_text),
                 "A lyrical, melancholic reinterpretation with vivid imagery.",
                 "plath")>>
     ELSE <<>>)

\* BaseKeys appending plath's key before camus's
BaseKeysPlathFirst(mode) ==
    (IF ModeIn(mode, {plath, blend}) THEN <<"plath">> ELSE <<>>)
    \o (IF ModeIn(mode, {camus, blend}) THEN <<"camus">> ELSE <<>>)

\* the keys appended to selected_keys beside the camus and plath tasks
BaseKeys(mode) ==
    (IF ModeIn(mode, {camus, blend}) THEN <<"camus">> ELSE <<>>)
    \o (IF ModeIn(mode, {plath, blend}) THEN <<"plath">> ELSE <<>>)

\* IsExtraKey with "synth" left out of the excluded keys
IsExtraKeyNoSynth(key) == key \notin {"camus", "plath"}

\* k not in ("camus", "plath", "synth")
IsExtraKey(key) == key \notin {"camus", "plath", "synth"}

\* [k for k in AGENT_POOL.keys() if k not in ("camus", "plath", "synth")]
ExtrasPool == SelectSeq(AgentKeys, IsExtraKey)

\* k = min(EXTRA_AGENT_COUNT, len(extras_pool))
SampleSize(extra_count, pool) == Min(extra_count, Len(pool))

ExtraTasks(extras, message_text) ==
    [i \in 1..Len(extras) |->
        Task(format_task_description(Role(extras[i]), message_text),
             "A stylistic reinterpretation expanding the absurdist dimension.",
             extras[i])]

SynthTask ==
    Task(<<"Synthesize all reinterpretations into one unified reflection. Blend philosophy, poetry, surrealism, irony, and mysticism.">>,
         "A single absurdist-philosophical response that feels layered, existential, poetic, surreal, and darkly humorous.",
         "synth")

ErrorFallback(exc) ==
    <<"(error) Something went wrong transforming the message: ">> \o exc

\* RunCrew without the except branch: the engine's error reaches the caller
RunCrewReraise(outcome) ==
    IF outcome.kind = "raise"
    THEN [status |-> "raised", ret |-> <<>>]
    ELSE [status |-> "returned", ret |-> extract_output(outcome.raw)]

\* the try block: Crew(...), kickoff(), extract_output, or the except branch
RunCrew(outcome) ==
    IF outcome.kind = "raise"
    THEN [status |-> "returned", ret |-> ErrorFallback(outcome.exc)]
    ELSE [status |-> "returned",
          ret |-> IF extract_output(outcome.raw) # <<>>
                  THEN extract_output(outcome.raw) ELSE <<>>]

SampleError == <<"Sample larger than population or is negative">>

\* Compose with the sample drawn before the mode is looked at, so that a
\* camus or plath invocation consumes a selection too
ComposeDrawsAlways(message_text, modeArg, s) ==
    LET mode == NormalizeMode(DefaultBlend(modeArg))
        base == BaseTasks(message_text, mode)
        smp == random_sample(ExtrasPool,
                   SampleSize(EXTRA_AGENT_COUNT, ExtrasPool), s)
        tasks == base \o ExtraTasks(smp.result, message_text) \o <<SynthTask>>
        selected_keys == BaseKeys(mode) \o smp.result \o <<"synth">>
    IN IF mode.s # blend
       THEN [inv |-> Invocation(message_text, modeArg, mode, base,
                                BaseKeys(mode), <<>>, FALSE, NotRun,
                                "composed", <<>>, <<>>),
             rng |-> smp.rng]
       ELSE IF smp.raised
       THEN [inv |-> Invocation(message_text, modeArg, mode, base,
                                BaseKeys(mode), <<>>, FALSE, NotRun,
                                "raised", <<>>, SampleError),
             rng |-> smp.rng]
       ELSE [inv |-> Invocation(message_text, modeArg, mode, tasks,
                                selected_keys, smp.result, TRUE,
                                NotRun, "composed", <<>>, <<>>),
             rng |-> smp.rng]

\* absurdist_improvement of Agent_Camus.py up to its try block, called with
\* the generator in state s: inv is the invocation as it stands there (or
\* as random.sample's ValueError leaves it), rng the generator state
Compose(message_text, modeArg, s) ==
    LET mode == NormalizeMode(DefaultBlend(modeArg))
        base == BaseTasks(message_text, mode)
    IN IF mode.s # blend
       THEN [inv |-> Invocation(message_text, modeArg, mode, base,
                                BaseKeys(mode), <<>>, FALSE, NotRun,
                                "composed", <<>>, <<>>),
             rng |-> s]
       ELSE LET smp == random_sample(ExtrasPool,
                           SampleSize(EXTRA_AGENT_COUNT, ExtrasPool), s)
                tasks == base \o ExtraTasks(smp.result, message_text)
                              \o <<SynthTask>>
                selected_keys == BaseKeys(mode) \o smp.result \o <<"synth">>
            IN IF smp.raised
               THEN [inv |-> Invocation(message_text, modeArg, mode, base,
                                        BaseKeys(mode), <<>>, FALSE, NotRun,
                                        "raised", <<>>, SampleError),
                     rng |-> smp.rng]
               ELSE [inv |-> Invocation(message_text, modeArg, mode, tasks,
                                        selected_keys, smp.result, TRUE,
                                        NotRun, "composed", <<>>, <<>>),
                     rng |-> smp.rng]

(* ---- src/Camus_proof.py ---- *)
\* [kafka_agent, dada_agent, ironist_agent, mystic_agent]
ProofExtras == <<"kafka", "dada", "ironist", "mystic">>

\* k=2 of random.sample in Camus_proof.py
ProofSampleSize == 2

CamusianPrompt(message_text) ==
    <<"Reframe this message with Camusian absurdism:\n">> \o message_text

PlathPrompt(message_text) ==
    <<"Reframe this message in Plath's dark poetic style:\n">> \o message_text

\* the camus and plath tasks of Camus_proof.py and camus_agent.py
PlainBaseTasks(message_text, mode) ==
    (IF ModeIn(mode, {camus, blend})
     THEN <<Task(CamusianPrompt(message_text),
                 "A philosophical reinterpretation emphasizing futility, absurdity, or revolt.",
                 "camus")>>
     ELSE <<>>)
    \o
    (IF ModeIn(mode, {plath, blend})
     THEN <<Task(PlathPrompt(message_text),
                 "A lyrical, melancholic reinterpretation with vivid imagery.",
                 "plath")>>
     ELSE <<>>)

ProofExtraTasks(extras, message_text) ==
    [i \in 1..Len(extras) |->
        Task(<<"Reframe this message in the style of ", Role(extras[i]), ":\n">>
                 \o message_text,
             "A stylistic reinterpretation expanding the absurdist dimension.",
             extras[i])]

ProofFallback ==
    <<"Like Sisyphus, your words roll endlessly toward the silence of the void.">>

\* crew.kickoff() and str(result).strip(), or the except branch
ProofRunCrew(outcome) ==
    IF outcome.kind = "raise"
    THEN [status |-> "returned", ret |-> ProofFallback]
    ELSE [status |-> "returned", ret |-> Strip(outcome.raw.s)]

\* absurdist_improvement of Camus_proof.py up to Crew(...)
ProofCompose(message_text, modeArg, s) ==
    LET mode == DefaultBlend(modeArg)
        base == PlainBaseTasks(message_text, mode)
    IN IF ~ModeIn(mode, {blend})
       THEN [inv |-> Invocation(message_text, modeArg, mode, base,
                                BaseKeys(mode), <<>>, FALSE, NotRun,
                                "composed", <<>>, <<>>),
             rng |-> s]
       ELSE LET smp == random_sample(ProofExtras, ProofSampleSize, s)
                tasks == base \o ProofExtraTasks(smp.result, message_text)
                              \o <<SynthTask>>
                selected_agents == BaseKeys(mode) \o smp.result \o <<"synth">>
            IN [inv |-> Invocation(message_text, modeArg, mode, tasks,
                                   selected_agents, smp.result, TRUE, NotRun,
                                   "composed", <<>>, <<>>),
                rng |-> smp.rng]

(* ---- src/camus_agent.py ---- *)
AgentSynthTask ==
    Task(<<"Synthesize the above reinterpretations into one unified reflection. Balance Camus' clarity with Plath's imagery.">>,
         "A single absurdist-philosophical response that feels both existential and poetic.",
         "synth")

SisyphusFallback(message_text) ==
    <<"Like Sisyphus, ">> \o message_text
        \o <<" rolls endlessly toward the silence of the void.">>

\* crew.kickoff() and str(result).strip(), or the except branch
AgentRunCrew(outcome, message_text) ==
    IF outcome.kind = "raise"
    THEN [status |-> "returned", ret |-> SisyphusFallback(message_text)]
    ELSE [status |-> "returned", ret |-> Strip(outcome.raw.s)]

\* absurdist_improvement of camus_agent.py up to Crew(...): it keeps no
\* list of selected agents and draws nothing from the random source
AgentCompose(message_text, modeArg, s) ==
    LET mode == DefaultBlend(modeArg)
        tasks == PlainBaseTasks(message_text, mode)
                    \o (IF ModeIn(mode, {blend}) THEN <<AgentSynthTask>> ELSE <<>>)
    IN [inv |-> Invocation(message_text, modeArg, mode, tasks, <<>>, <<>>,
                           FALSE, NotRun, "composed", <<>>, <<>>),
        rng |-> s]

(* ---- the NANDA wrapper of Agent_Camus.py ---- *)
RequestKeys == {"text", "message", "mode"}

\* a request: t is its type ("str", "dict", or another), s is str(incoming),
\* f the entries of a dict (ABSENT where there is none)
Request(t, s, f) == [t |-> t, s |-> s, f |-> f]

NoEntries == [key \in RequestKeys |-> ABSENT]

NoRequest == Request("none", <<>>, NoEntries)

Requests ==
    {Request("str", m, NoEntries) : m \in Messages}
    \cup {Request("int", <<"4", "2">>, NoEntries)}
    \cup {Request("dict", <<"{", "}">>,
                  [text |-> t, message |-> m, mode |-> md]) :
            t \in {ABSENT, Str(Hi)}, m \in {ABSENT, Str(WhyBother)},
            md \in ModeArgs}

\* dict.get(key): None when the key is absent
Get(f, key) == IF f[key] = ABSENT THEN None ELSE f[key]

\* text = incoming.get("text") or incoming.get("message") or ""
WrapperText(req) ==
    IF req.t = "dict"
    THEN IF Truthy(Get(req.f, "text")) THEN req.f["text"].s
         ELSE IF Truthy(Get(req.f, "message")) THEN req.f["message"].s
         ELSE <<>>
    ELSE req.s

\* mode = incoming.get("mode", "blend"), or "blend" for a request that is
\* no dict
WrapperMode(req) ==
    IF req.t = "dict" /\ req.f["mode"] # ABSENT THEN req.f["mode"]
    ELSE Str(blend)

Response(text, mode) == [present |-> TRUE, text |-> text, mode |-> mode]

NoResponse == [present |-> FALSE, text |-> <<>>, mode |-> ABSENT]

\* WrapperResponse answering "blend" whatever the request asked
WrapperResponseBlend(result_text, mode) == Response(result_text, Str(blend))

\* return {"text": result_text, "mode": mode}
WrapperResponse(result_text, mode) == Response(result_text, mode)

(* ---- process start ---- *)
Scripts == {"Agent_Camus", "Camus_proof", "camus_agent"}

\* the values of EXTRA_AGENT_COUNT tried: negative, none, the default, and
\* more than the registry has extras
ExtraCounts == {-1, 0, 2, 5}

\* SeedConfigured when random.seed is never called
SeedNever(seed) == FALSE

\* if AGENT_SEED > 0
SeedConfigured(seed) == seed > 0

\* the states the random source can be in once the module is loaded:
\* seeded by Agent_Camus.py when a seed is configured, else from the
\* operating system's entropy; camus_agent.py has no random source
StartStates ==
    IF script = "Agent_Camus" /\ SeedConfigured(AGENT_SEED)
    THEN {SeedState(AGENT_SEED)}
    ELSE IF script = "camus_agent" THEN {0}
    ELSE 0..(RngMod - 1)

NoFallback == <<"(none)">>

\* the thread nanda.start_server runs in and the main thread, which runs repl
Threads == {"server", "repl"}

\* a thread that is not inside absurdist_improvement
NoFrame == [pc |-> "idle", message_text |-> <<>>, mode |-> None, ret |-> <<>>]

\* tasks = [] and selected_agents = [], and no sample yet
NoLocals == [tasks |-> <<>>, selected_agents |-> <<>>, pool |-> <<>>,
             extras |-> <<>>]

\* the Agent objects of the closure, by the name of their variable
Registry == [key \in {AgentKeys[i] : i \in 1..Len(AgentKeys)} |-> Role(key)]

Init ==
    /\ script \in Scripts
    /\ IF script = "Agent_Camus"
       THEN /\ AGENT_SEED \in 0..MaxSeed
            /\ EXTRA_AGENT_COUNT \in ExtraCounts
       ELSE /\ AGENT_SEED = 0
            /\ EXTRA_AGENT_COUNT = 2
    /\ rng \in StartStates
    /\ run = 1
    /\ blends = 0
    /\ inv = Idle
    /\ incoming = NoRequest
    /\ response = NoResponse
    /\ extrasLog = <<>>
    /\ fallback = NoFallback
    /\ frames = [t \in Threads |-> NoFrame]
    /\ locals = [t \in Threads |-> NoLocals]
    /\ agents = Registry

\* the process is started again with the same environment
ProcessStart ==
    /\ run < MaxRuns
    /\ inv.status = "idle"
    /\ run' = run + 1
    /\ rng' \in StartStates
    /\ blends' = 0
    /\ fallback' = NoFallback
    /\ UNCHANGED <<script, AGENT_SEED, EXTRA_AGENT_COUNT, inv, incoming,
                   response, extrasLog>>
    /\ UNCHANGED threadVars

\* the bookkeeping every call shares; r is what the function did up to the
\* engine
Called(r) ==
    /\ inv.status = "idle"
    /\ r.inv.sampled => blends < MaxBlends
    /\ inv' = r.inv
    /\ rng' = r.rng
    /\ blends' = IF r.inv.sampled THEN blends + 1 ELSE blends
    /\ extrasLog' = IF run = 1 /\ AGENT_SEED > 0 /\ r.inv.sampled
                    THEN Append(extrasLog, r.inv.extras)
                    ELSE extrasLog
    /\ UNCHANGED <<script, AGENT_SEED, EXTRA_AGENT_COUNT, run, fallback>>
    /\ UNCHANGED threadVars

\* absurdist_improvement of Agent_Camus.py called directly
AgentCamusCall ==
    /\ script = "Agent_Camus"
    /\ \E m \in Messages, md \in ModeArgs : Called(Compose(m, md, rng))
    /\ incoming' = NoRequest
    /\ response' = NoResponse

\* wrapper(incoming) of Agent_Camus.py, as NANDA calls it
NandaRequest ==
    /\ script = "Agent_Camus"
    /\ \E req \in Requests :
          /\ Called(Compose(WrapperText(req), WrapperMode(req), rng))
          /\ incoming' = req
    /\ response' = NoResponse

\* absurdist_improvement of Camus_proof.py, as NANDA and the REPL call it
CamusProofCall ==
    /\ script = "Camus_proof"
    /\ \E m \in Messages, md \in ModeArgs : Called(ProofCompose(m, md, rng))
    /\ incoming' = NoRequest
    /\ response' = NoResponse

\* absurdist_improvement of camus_agent.py, as NANDA calls it
CamusAgentCall ==
    /\ script = "camus_agent"
    /\ \E m \in Messages, md \in ModeArgs : Called(AgentCompose(m, md, rng))
    /\ incoming' = NoRequest
    /\ response' = NoResponse

\* the engine answers (or fails) and the function returns r.ret, which the
\* wrapper, when it made the call, puts in its response
Finished(outcome, r) ==
    /\ inv.status = "composed"
    /\ inv' = [inv EXCEPT !.crew = outcome, !.status = r.status, !.ret = r.ret]
    /\ response' = IF incoming # NoRequest
                   THEN WrapperResponse(r.ret, WrapperMode(incoming))
                   ELSE NoResponse
    /\ fallback' = IF outcome.kind = "raise" /\ fallback = NoFallback
                   THEN r.ret ELSE fallback
    /\ UNCHANGED <<script, AGENT_SEED, EXTRA_AGENT_COUNT, rng, run, blends,
                   incoming, extrasLog>>
    /\ UNCHANGED threadVars

\* the try block of Agent_Camus.py
AgentCamusKickoff ==
    /\ script = "Agent_Camus"
    /\ \E outcome \in CrewOutcomes : Finished(outcome, RunCrew(outcome))

\* Crew(...) and kickoff() of Camus_proof.py
CamusProofKickoff ==
    /\ script = "Camus_proof"
    /\ \E outcome \in CrewOutcomes : Finished(outcome, ProofRunCrew(outcome))

\* Crew(...) and kickoff() of camus_agent.py
CamusAgentKickoff ==
    /\ script = "camus_agent"
    /\ \E outcome \in CrewOutcomes :
          Finished(outcome, AgentRunCrew(outcome, inv.message_text))

\* the caller has the result (or the error); the invocation's locals are
\* discarded
Return ==
    /\ inv.status \in {"returned", "raised"}
    /\ inv' = Idle
    /\ incoming' = NoRequest
    /\ response' = NoResponse
    /\ UNCHANGED <<script, AGENT_SEED, EXTRA_AGENT_COUNT, rng, run, blends,
                   extrasLog, fallback>>
    /\ UNCHANGED threadVars

Next ==
    \/ ProcessStart
    \/ AgentCamusCall
    \/ NandaRequest
    \/ CamusProofCall
    \/ CamusAgentCall
    \/ AgentCamusKickoff
    \/ CamusProofKickoff
    \/ CamusAgentKickoff
    \/ Return

Spec == Init /\ [][Next]_vars

(* ---- Camus_proof.py with the server thread and the REPL both running ---- *)
\* the variables of one process that the threads leave alone
processVars == <<script, AGENT_SEED, EXTRA_AGENT_COUNT, run, blends, inv,
                 incoming, response, extrasLog, fallback>>

\* the modes a request to the server may name; the REPL passes none
ServerModes == {ABSENT, Str(camus), Str(plath)}

\* every thread's call has one frame for all threads' locals
SharedFrame(t) == "server"

\* tasks, selected_agents and the sample's pool are locals of the call: each
\* thread's call has a frame of its own
Frame(t) == t

\* main has started the server thread and entered repl
InitConc ==
    /\ script = "Camus_proof"
    /\ AGENT_SEED = 0
    /\ EXTRA_AGENT_COUNT = 2
    /\ rng \in 0..(RngMod - 1)
    /\ run = 1
    /\ blends = 0
    /\ inv = Idle
    /\ incoming = NoRequest
    /\ response = NoResponse
    /\ extrasLog = <<>>
    /\ fallback = NoFallback
    /\ frames = [t \in Threads |-> NoFrame]
    /\ locals = [t \in Threads |-> NoLocals]
    /\ agents = Registry

\* thread t enters absurdist_improvement: the camus and plath tasks, and in
\* mode blend random.sample's copy of the population
Enter(t, message_text, modeArg) ==
    LET mode == DefaultBlend(modeArg)
    IN /\ frames[t].pc = "idle"
       /\ frames' = [frames EXCEPT ![t] =
                        [pc |-> IF ModeIn(mode, {blend}) THEN "sampling"
                                ELSE "composed",
                         message_text |-> message_text, mode |-> mode,
                         ret |-> <<>>]]
       /\ locals' = [locals EXCEPT ![Frame(t)] =
                        [tasks |-> PlainBaseTasks(message_text, mode),
                         selected_agents |-> BaseKeys(mode),
                         pool |-> IF ModeIn(mode, {blend}) THEN ProofExtras
                                  ELSE <<>>,
                         extras |-> <<>>]]
       /\ UNCHANGED <<rng, agents>>
       /\ UNCHANGED processVars

\* NANDA's server thread calls the improvement function for a request
ServerRequest ==
    \E m \in Messages, md \in ServerModes : Enter("server", m, md)

\* repl calls absurdist_logic(user_input)
ReplInput ==
    \E m \in Messages : Enter("repl", m, ABSENT)

\* one turn of random.sample's selection loop in thread t, on the shared
\* random source; the other thread may run between two turns
Draw(t) ==
    LET l == locals[Frame(t)]
        n == Len(ProofExtras)
        i == Len(l.extras)
        r == RandBelow(rng, n - i)
        j == r.value + 1
    IN /\ frames[t].pc = "sampling"
       /\ i < ProofSampleSize
       /\ rng' = r.rng
       /\ locals' = [locals EXCEPT ![Frame(t)] =
                        [l EXCEPT !.extras = Append(l.extras, l.pool[j]),
                                  !.pool = [l.pool EXCEPT ![j] = l.pool[n - i]]]]
       /\ UNCHANGED <<frames, agents>>
       /\ UNCHANGED processVars

\* the tasks of the extras and of the synthesizer
Extend(t) ==
    LET l == locals[Frame(t)]
    IN /\ frames[t].pc = "sampling"
       /\ Len(l.extras) >= ProofSampleSize
       /\ locals' = [locals EXCEPT ![Frame(t)] =
                        [l EXCEPT !.tasks = l.tasks
                                      \o ProofExtraTasks(l.extras,
                                                         frames[t].message_text)
                                      \o <<SynthTask>>,
                                  !.selected_agents = l.selected_agents
                                      \o l.extras \o <<"synth">>]]
       /\ frames' = [frames EXCEPT ![t].pc = "composed"]
       /\ UNCHANGED <<rng, agents>>
       /\ UNCHANGED processVars

\* Crew(...) and kickoff() in thread t, or the except branch
Kickoff(t) ==
    /\ frames[t].pc = "composed"
    /\ \E outcome \in CrewOutcomes :
          frames' = [frames EXCEPT ![t].pc = "returned",
                                   ![t].ret = ProofRunCrew(outcome).ret]
    /\ UNCHANGED <<rng, locals, agents>>
    /\ UNCHANGED processVars

\* thread t's caller has the result; the call's locals are discarded
Leave(t) ==
    /\ frames[t].pc = "returned"
    /\ frames' = [frames EXCEPT ![t] = NoFrame]
    /\ locals' = [locals EXCEPT ![Frame(t)] = NoLocals]
    /\ UNCHANGED <<rng, agents>>
    /\ UNCHANGED processVars

NextConc ==
    \/ ServerRequest
    \/ ReplInput
    \/ \E t \in Threads : Draw(t)
    \/ \E t \in Threads : Extend(t)
    \/ \E t \in Threads : Kickoff(t)
    \/ \E t \in Threads : Leave(t)

SpecConc == InitConc /\ [][NextConc]_vars

(* ======================= the claims ======================= *)
KnownModes == {camus, plath, blend}

\* the agent of every task, in order
Agents(tasks) == [i \in 1..Len(tasks) |-> tasks[i].agent]

\* the tasks stand as the function built them
Built == inv.status \in {"composed", "returned", "raised"}

\* camus, plath, extras (none of them camus, plath or synth), synthesizer last
IsBlendSequence(tasks) ==
    /\ Len(tasks) >= 3
    /\ tasks[1].agent = "camus"
    /\ tasks[2].agent = "plath"
    /\ tasks[Len(tasks)].agent = "synth"
    /\ \A i \in 3..(Len(tasks) - 1) :
          tasks[i].agent \notin {"camus", "plath", "synth"}

\* the mode string given is none of the three, also once Agent_Camus.py has
\* replaced the empty string and lower-cased it
Unrecognized(modeArg) ==
    /\ IsStr(modeArg)
    /\ modeArg.s \notin KnownModes
    /\ script = "Agent_Camus" =>
          modeArg.s # <<>> /\ Lower(modeArg.s) \notin KnownModes

ExtraCount == IF script = "Agent_Camus" THEN EXTRA_AGENT_COUNT ELSE ProofSampleSize

\* the size of the pool the extras are drawn from
PoolSize == IF script = "Agent_Camus" THEN Len(ExtrasPool) ELSE Len(ProofExtras)

\* C3: in mode blend, for any configured extra_count, the last request is
\* the synthesizer's and there are 2 + min(extra_count, pool size) + 1
\* requests.
C3_BlendCount ==
    (script \in {"Agent_Camus", "Camus_proof"} /\ Built /\ inv.mode = Str(blend))
    => /\ Len(inv.tasks) = 2 + Min(ExtraCount, PoolSize) + 1
       /\ inv.tasks[Len(inv.tasks)].agent = "synth"

\* C4: in every blend invocation the extra personas (the owners of the
\* requests between plath's and the synthesizer's) are pairwise distinct
\* keys of the registry and none of them is camus, plath or synth.
C4_ExtrasDistinct ==
    (Built /\ inv.mode = Str(blend) /\ inv.sampled)
    => /\ Len(inv.tasks) = Len(inv.extras) + 3
       /\ \A i \in 1..Len(inv.extras) :
             /\ inv.tasks[i + 2].agent = inv.extras[i]
             /\ inv.extras[i] \in {AgentKeys[n] : n \in 1..Len(AgentKeys)}
             /\ inv.extras[i] \notin {"camus", "plath", "synth"}
             /\ \A j \in 1..Len(inv.extras) :
                   i # j => inv.extras[i] # inv.extras[j]

C4_Witness ==
    /\ script = "Agent_Camus"
    /\ inv.status = "returned"
    /\ inv.mode = Str(blend)
    /\ Len(inv.extras) = 4

\* C5: with a negative EXTRA_AGENT_COUNT a blend invocation raises no error,
\* selects no extra persona and still appends the synthesis request.
C5_NegativeClamped ==
    (script = "Agent_Camus" /\ EXTRA_AGENT_COUNT < 0 /\ Built
        /\ inv.mode = Str(blend))
    => /\ inv.status # "raised"
       /\ inv.extras = <<>>
       /\ Len(inv.tasks) > 0
       /\ inv.tasks[Len(inv.tasks)].agent = "synth"

\* C6 as claimed: with a seed configured, any two blend invocations return
\* the same extras: the selection just made equals every selection the
\* seeded process logged before.
C6_SameSelection ==
    (script = "Agent_Camus" /\ AGENT_SEED > 0 /\ inv.sampled)
    => \A n \in 1..Len(extrasLog) : extrasLog[n] = inv.extras

\* C6 amended: with a seed configured, the n-th selection a process draws is
\* the n-th selection every other run of the process with the same seed and
\* extra_count drew (same personas, same order); selections drawn one after
\* the other in one process need not agree.
C6_SameSelectionPerDraw ==
    (script = "Agent_Camus" /\ AGENT_SEED > 0 /\ inv.sampled
        /\ blends <= Len(extrasLog))
    => extrasLog[blends] = inv.extras

C6_Witness ==
    /\ script = "Agent_Camus"
    /\ AGENT_SEED > 0
    /\ run = 2
    /\ inv.sampled
    /\ blends = 2
    /\ Len(extrasLog) = 2
    /\ extrasLog[1] # extrasLog[2]

\* C7: for a non-empty message and a mode among camus, plath, blend the base
\* requests are there and owned as the mode says: camus alone gives one
\* request of the existential philosopher, plath alone one of the poetic
\* melancholic, blend gives camus then plath first; and each base request's
\* prompt contains the message.
C7_BaseRequests ==
    (Built /\ inv.message_text # <<>> /\ ModeIn(inv.modeArg, KnownModes))
    => /\ inv.tasks # <<>>
       /\ inv.modeArg.s = camus =>
             /\ Agents(inv.tasks) = <<"camus">>
             /\ Role(inv.tasks[1].agent) = "Existential Philosopher"
       /\ inv.modeArg.s = plath =>
             /\ Agents(inv.tasks) = <<"plath">>
             /\ Role(inv.tasks[1].agent) = "Poetic Melancholic"
       /\ inv.modeArg.s = blend =>
             /\ Len(inv.tasks) >= 2
             /\ inv.tasks[1].agent = "camus"
             /\ inv.tasks[2].agent = "plath"
       /\ \A i \in 1..Len(inv.tasks) :
             inv.tasks[i].agent \in {"camus", "plath"} =>
                Contains(inv.tasks[i].description, inv.message_text)

C7_Witness ==
    /\ script = "Agent_Camus"
    /\ inv.status = "returned"
    /\ inv.modeArg = Str(camus)
    /\ inv.message_text = Hi

\* r is s with the whitespace at both ends removed and nothing else changed
IsTrimOf(r, s) ==
    /\ r # <<>> => (r[1] \notin Whitespace /\ r[Len(r)] \notin Whitespace)
    /\ \E i \in 0..Len(s) :
          /\ i + Len(r) <= Len(s)
          /\ \A n \in 1..i : s[n] \in Whitespace
          /\ \A n \in 1..Len(r) : s[i + n] = r[n]
          /\ \A n \in (i + Len(r) + 1)..Len(s) : s[n] \in Whitespace

\* no str under the attributes output / text of an object, nor under the
\* keys output / result / text / answer of a dict
UnrecognizedShape(raw) ==
    /\ raw.t \notin {"none", "str"}
    /\ raw.t = "obj" => (~IsStr(raw.f["output"]) /\ ~IsStr(raw.f["text"]))
    /\ raw.t = "dict" => \A key \in ResultKeys : ~IsStr(raw.f[key])

\* C8: of what the engine returns, extract_output makes "" for None, the
\* trimmed string for a string, the trimmed textual representation for an
\* unrecognized shape; and the function returns it without raising.
C8_ExtractOutput ==
    (script = "Agent_Camus" /\ inv.crew.kind = "return")
    => /\ inv.status = "returned"
       /\ inv.crew.raw.t = "none" => inv.ret = <<>>
       /\ inv.crew.raw.t = "str" => IsTrimOf(inv.ret, inv.crew.raw.s)
       /\ UnrecognizedShape(inv.crew.raw) => IsTrimOf(inv.ret, inv.crew.raw.s)

C8_Witness ==
    /\ script = "Agent_Camus"
    /\ inv.status = "returned"
    /\ inv.crew.kind = "return"
    /\ UnrecognizedShape(inv.crew.raw)
    /\ inv.ret # inv.crew.raw.s

\* C9 as claimed: the mode of the wrapper's response is the mode under
\* which absurdist_improvement composed its requests.
C9_ResponseModeIsUsed ==
    response.present => response.mode = inv.mode

\* C9 amended: the mode of the wrapper's response is the request's mode as
\* given ("blend" for a request that is no dict or has no mode key), and the
\* requests were composed under that value lower-cased, None and "" taken as
\* blend; the text of the response is what the function returned.
C9_ResponseModeIsRequested ==
    response.present
    => /\ response.text = inv.ret
       /\ response.mode = IF incoming.t = "dict" /\ incoming.f["mode"] # ABSENT
                          THEN incoming.f["mode"] ELSE Str(blend)
       /\ inv.mode = IF response.mode \in {None, Str(<<>>)} THEN Str(blend)
                     ELSE Str(Lower(response.mode.s))

C9_Witness ==
    /\ response.present
    /\ incoming.t = "dict"
    /\ incoming.f["mode"] = Str(CAMUS_upper)

\* the caller gave no mode: the argument left out, None or "", or a request
\* that is a string, no dict at all, or a dict without a mode key
ModeAbsent ==
    IF incoming = NoRequest
    THEN inv.modeArg \in {ABSENT, None, Str(<<>>)}
    ELSE incoming.t # "dict" \/ incoming.f["mode"] = ABSENT

\* C10: when the mode is absent the invocation of Agent_Camus.py runs in
\* blend mode and composes the blend sequence: camus, plath, extras,
\* synthesizer last.
C10_AbsentModeIsBlend ==
    (script = "Agent_Camus" /\ Built /\ ModeAbsent)
    => (inv.mode = Str(blend) /\ IsBlendSequence(inv.tasks))

\* the place of a persona in the order camus, plath, extras, synthesizer
Rank(key) ==
    CASE key = "camus" -> 1 [] key = "plath" -> 2 [] key = "synth" -> 4
      [] OTHER -> 3

\* C11: in every invocation of Agent_Camus.py and Camus_proof.py the requests
\* and the selected personas stay in step: as many of the one as of the
\* other, the i-th request owned by the i-th selected persona, no persona
\* owning two requests, and the order camus, plath, extras, synthesizer.
C11_InStep ==
    (script \in {"Agent_Camus", "Camus_proof"} /\ Built)
    => /\ Len(inv.tasks) = Len(inv.selected)
       /\ \A i \in 1..Len(inv.tasks) :
             /\ i <= Len(inv.selected)
             /\ inv.tasks[i].agent = inv.selected[i]
             /\ \A j \in 1..Len(inv.tasks) :
                   /\ i # j => inv.tasks[i].agent # inv.tasks[j].agent
                   /\ i < j => Rank(inv.tasks[i].agent) <= Rank(inv.tasks[j].agent)

C11_Witness ==
    /\ script = "Camus_proof"
    /\ inv.status = "returned"
    /\ Len(inv.tasks) = 5
    /\ Len(inv.selected) = 5

\* the generator state n single draws after s
RECURSIVE Advance(_, _)
Advance(s, n) == IF n <= 0 THEN s ELSE Advance(NextRng(s), n - 1)

\* what the n-th selection of a process seeded with seed is, from the seed,
\* the pool, the count and n alone
NthSelection(seed, pool, count, n) ==
    random_sample(pool, Min(count, Len(pool)),
                  Advance(SeedState(seed), (n - 1) * Min(count, Len(pool)))).result

\* in a seeded process the selection just drawn is the one its number fixes
C13_Selection ==
    (script = "Agent_Camus" /\ AGENT_SEED > 0 /\ inv.sampled)
    => inv.extras = NthSelection(AGENT_SEED, ExtrasPool, EXTRA_AGENT_COUNT, blends)

\* a call in a mode other than blend leaves the random source as it was; a
\* call in mode blend advances it by the draws of one sample, as many as it
\* selected extras; the engine's answer or failure and the return leave it
\* as it was
C13_Frame ==
    LET called == inv.status = "idle" /\ inv'.status # "idle"
    IN /\ (called /\ inv'.mode # Str(blend)) => rng' = rng
       /\ (called /\ inv'.mode = Str(blend)
              /\ script \in {"Agent_Camus", "Camus_proof"})
          => /\ rng' = Advance(rng, Len(inv'.extras))
             /\ Len(inv'.extras) = IF inv'.status = "raised" THEN 0
                                   ELSE Min(ExtraCount, PoolSize)
       /\ (~called /\ run' = run) => rng' = rng

\* C13: an invocation in a mode other than blend leaves the shared random
\* source unchanged and a blend invocation advances it by exactly one sample;
\* so in a seeded process the extras of the n-th blend invocation depend only
\* on the seed, the pool, extra_count and n, whatever other invocations ran
\* in between and whether the engine failed.
C13_RandomSourceFrame == []C13_Selection /\ [][C13_Frame]_vars

\* the second selection of a seeded process in which the engine has failed
\* before
C13_Witness ==
    /\ script = "Agent_Camus"
    /\ AGENT_SEED > 0
    /\ inv.sampled
    /\ inv.status = "composed"
    /\ blends = 2
    /\ Len(inv.extras) = 2
    /\ fallback # NoFallback

\* every request a message and a mode can give rise to in Camus_proof.py
OwnRequests(message_text, mode) ==
    {PlainBaseTasks(message_text, mode)[i] :
        i \in 1..Len(PlainBaseTasks(message_text, mode))}
    \cup (IF ModeIn(mode, {blend})
          THEN {ProofExtraTasks(ProofExtras, message_text)[i] :
                   i \in 1..Len(ProofExtras)} \cup {SynthTask}
          ELSE {})

\* the requests of a thread's call are built from that call's message and
\* mode, and once composed they are all of them
C12_OwnRequests ==
    \A t \in Threads :
        frames[t].pc # "idle"
        => /\ \A i \in 1..Len(locals[t].tasks) :
                 locals[t].tasks[i]
                     \in OwnRequests(frames[t].message_text, frames[t].mode)
           /\ frames[t].pc \in {"composed", "returned"}
              => /\ Agents(locals[t].tasks) = locals[t].selected_agents
                 /\ Len(locals[t].tasks)
                       = Len(BaseKeys(frames[t].mode))
                         + (IF ModeIn(frames[t].mode, {blend})
                            THEN ProofSampleSize + 1 ELSE 0)

\* a step changes the call and the locals of one thread at most, and never
\* the Agent objects
Untouched(t) == frames'[t] = frames[t] /\ locals'[t] = locals[t]

C12_OneThread ==
    /\ agents' = agents
    /\ Untouched("server") \/ Untouched("repl")

\* C12: under any interleaving of the server thread's and the REPL's
\* invocations the only state one invocation changes for the other is the
\* shared random source: the personas are never modified and each
\* invocation's request sequence holds only requests built from its own
\* message and mode.
C12_Isolation == []C12_OwnRequests /\ [][C12_OneThread]_vars

\* both threads have composed a blend at once, for different messages, and
\* the shared random source gave them different extras
C12_Witness ==
    /\ frames["server"].pc = "composed"
    /\ frames["repl"].pc = "composed"
    /\ frames["server"].message_text # frames["repl"].message_text
    /\ ModeIn(frames["server"].mode, {blend})
    /\ Len(locals["server"].tasks) = Len(locals["repl"].tasks)
    /\ locals["server"].extras # locals["repl"].extras
====
